---- MODULE Spec2Model ----
(***************************************************************************)
(* Trading ledger of the stock-trading simulator.                          *)
(*                                                                         *)
(* Two deployments of the same web application are modelled:               *)
(*   - app.py      keeps users, portfolio and watchlists in process-wide   *)
(*                 lists (specification Spec);                             *)
(*   - app_aws.py  keeps them in DynamoDB tables and reaches them through  *)
(*                 separate network calls, so the steps of concurrent      *)
(*                 requests interleave (specification SpecAws).            *)
(*                                                                         *)
(* Money is an exact integer number of hundredths: the price feed rounds   *)
(* every price to two decimals (app.py:41, app_aws.py:77).  app.py's       *)
(* binary floating point rounding is not modelled.                         *)
(***************************************************************************)
EXTENDS Integers, Sequences, FiniteSets, TLC

VARIABLES
    users,        \* app.py:26   list of user dicts
    watchlists,   \* app.py:27   list of {user, company}
    portfolio,    \* app.py:28   list of {user, company, quantity, buy_price}
    session,      \* app.py      session["user"] of every browser
    last,         \* app.py      the request handled last (route, form fields,
                  \*             the user get_user found and its balance before)
    response,     \* app.py      what that request's handler returned
    nreq,         \* app.py      number of requests handled so far
    users_table,      \* app_aws.py:38  Users table, keyed by email
    portfolio_table,  \* app_aws.py:39  Portfolio table, keyed by (email, company)
    watchlist_table,  \* app_aws.py:40  Watchlist table, keyed by (email, company)
    aws_session,      \* app_aws.py     session["email"], session["user"] of every browser
    pc,               \* app_aws.py     where every browser's request in flight stands
    req,              \* app_aws.py     that request and its handler's local variables
                      \*                (fresh: no Portfolio item had the request's
                      \*                key when the request began)
    aws_response,     \* app_aws.py     what every browser's last request returned
    aws_nreq          \* app_aws.py     number of requests started so far

appVars == <<users, watchlists, portfolio, session, last, response, nreq>>

awsVars == <<users_table, portfolio_table, watchlist_table, aws_session, pc, req,
             aws_response, aws_nreq>>

vars == <<users, watchlists, portfolio, session, last, response, nreq,
          users_table, portfolio_table, watchlist_table, aws_session, pc, req,
          aws_response, aws_nreq>>

(***************************************************************************)
(* Bounds and input domains                                                *)
(***************************************************************************)
MaxRequests == 5

\* the browsers of app_aws.py, whose requests run concurrently
Clients == {"c1", "c2"}

\* the browser of app.py: its handlers run one at a time here, and one
\* browser that logs in as one account and then as another reaches every
\* state of the lists that several browsers reach
AppClients == {"c1"}
Names == {"ann", "bob"}
Emails == {"a@x", "b@x"}
Passwords == {"pw"}

\* the symbols a request may name: two configured companies and one that
\* is not configured
Symbols == {"Apple", "Google", "DOGE"}

\* request.form["quantity"]: text that int() parses, or text it rejects
Quantities == {-1, 0, 2, 600}
FormQuantities ==
    [isInt : {TRUE}, v : Quantities] \cup {[isInt |-> FALSE, v |-> 0]}

\* request.form["sell_price"], in hundredths
SellPrices == {-5000, 15000}

\* random.uniform(0.95, 1.05), in percent
Factors == {95, 105}

(***************************************************************************)
(* app.py: constants and helpers                                           *)
(***************************************************************************)
COMPANIES == {"Apple", "Google"}

\* round(float(latest["Close"]), 2) of the last row of each data file
LatestPrice == [c \in COMPANIES |-> IF c = "Apple" THEN 15000 ELSE 10000]

load_latest_prices == [c \in COMPANIES |-> [company |-> c, price |-> LatestPrice[c]]]

StartingBalance == 100000 * 100

NoSession == "<no session>"

generate_password_hash(password) == <<"pbkdf2", password>>

check_password_hash(pwhash, password) == pwhash = generate_password_hash(password)

\* the least index of a set of indices, 0 for the empty set: next(..., None)
FirstOf(S) == IF S = {} THEN 0 ELSE CHOOSE i \in S : \A j \in S : i <= j

\* the index in users of the dict get_user() returns, 0 for None
get_user(c) ==
    IF session[c] = NoSession
    THEN 0
    ELSE FirstOf({i \in DOMAIN users : users[i].name = session[c]})

\* removal of one element of a list
RemoveAt(seq, i) ==
    [j \in 1..(Len(seq) - 1) |-> IF j < i THEN seq[j] ELSE seq[j + 1]]

\* what a handler returns: HTTP status, flashed message, redirect target,
\* and the rows a rendered page lists
Reply(status, flash, redirect, view) ==
    response' = [status |-> status, flash |-> flash, redirect |-> redirect,
                 view |-> view]

Request(op, c, company, quantity, sell_price) ==
    /\ nreq < MaxRequests
    /\ nreq' = nreq + 1
    /\ last' = [op |-> op, client |-> c, company |-> company,
                quantity |-> quantity, sell_price |-> sell_price,
                user |-> get_user(c),
                balance |-> IF get_user(c) = 0 THEN 0
                            ELSE users[get_user(c)].balance]

NoQuantity == [isInt |-> FALSE, v |-> 0]

(***************************************************************************)
(* app.py: routes                                                          *)
(***************************************************************************)
signup(c, name, email, password) ==
    /\ Request("signup", c, email, NoQuantity, 0)
    /\ IF \E i \in DOMAIN users : users[i].email = email
       THEN /\ Reply(302, "Email already registered. Please login.", "login", <<>>)
            /\ UNCHANGED users
       ELSE /\ users' = Append(users,
                   [id |-> Len(users) + 1, name |-> name, email |-> email,
                    password |-> generate_password_hash(password),
                    balance |-> StartingBalance])
            /\ Reply(302, "Account created successfully. Please login.", "login", <<>>)
    /\ UNCHANGED <<watchlists, portfolio, session>>

login(c, email, password) ==
    LET u == FirstOf({i \in DOMAIN users : users[i].email = email})
    IN /\ Request("login", c, email, NoQuantity, 0)
       /\ IF u # 0 /\ check_password_hash(users[u].password, password)
          THEN /\ session' = [session EXCEPT ![c] = users[u].name]
               /\ Reply(302, "", "dashboard", <<>>)
          ELSE /\ Reply(200, "User not registered or incorrect password", "", <<>>)
               /\ UNCHANGED session
       /\ UNCHANGED <<users, watchlists, portfolio>>

logout(c) ==
    /\ Request("logout", c, "", NoQuantity, 0)
    /\ session' = [session EXCEPT ![c] = NoSession]
    /\ Reply(302, "Logged out successfully", "login", <<>>)
    /\ UNCHANGED <<users, watchlists, portfolio>>

\* a balance check that only asks whether any cash is left
InsufficientBalance_NoCash(balance, total_cost) == balance <= 0

\* app.py:186
InsufficientBalance(balance, total_cost) == balance < total_cost

\* app.py:192-197
NewHolding(user, company, qty, price) ==
    [user |-> user, company |-> company, quantity |-> qty, buy_price |-> price]

buy_stock(c, company, quantity) ==
    LET u == get_user(c)
        qty == quantity.v
        stock == IF company \in DOMAIN load_latest_prices
                 THEN load_latest_prices[company]
                 ELSE [company |-> "", price |-> 0]
        total_cost == qty * stock.price
    IN /\ Request("buy", c, company, quantity, 0)
       /\ UNCHANGED watchlists
       /\ IF session[c] = NoSession
          THEN /\ Reply(302, "Login first", "login", <<>>)
               /\ UNCHANGED <<users, portfolio, session>>
          ELSE IF u = 0
          THEN /\ session' = [session EXCEPT ![c] = NoSession]
               /\ Reply(302, "Session expired", "login", <<>>)
               /\ UNCHANGED <<users, portfolio>>
          ELSE IF ~quantity.isInt
          THEN /\ Reply(302, "Invalid quantity", "dashboard", <<>>)
               /\ UNCHANGED <<users, portfolio, session>>
          ELSE IF company \notin DOMAIN load_latest_prices
          THEN /\ Reply(302, "Stock not found", "dashboard", <<>>)
               /\ UNCHANGED <<users, portfolio, session>>
          ELSE IF InsufficientBalance(users[u].balance, total_cost)
          THEN /\ Reply(302, "Insufficient balance", "dashboard", <<>>)
               /\ UNCHANGED <<users, portfolio, session>>
          ELSE /\ users' = [users EXCEPT ![u].balance = @ - total_cost]
               /\ portfolio' = Append(portfolio,
                      NewHolding(session[c], company, qty, stock.price))
               /\ Reply(302, "Bought", "portfolio_page", <<>>)
               /\ UNCHANGED session

\* app.py:217-221: the index in portfolio of the first record of the
\* session's user and the company, 0 for None
FindHolding(user, company) ==
    FirstOf({i \in DOMAIN portfolio :
                portfolio[i].user = user /\ portfolio[i].company = company})

\* app.py:223
NotEnough(h, qty_to_sell) == h = 0 \/ portfolio[h].quantity < qty_to_sell

sell_stock(c, company, quantity, sell_price) ==
    LET qty_to_sell == quantity.v
        u == get_user(c)
        h == FindHolding(session[c], company)
        left == portfolio[h].quantity - qty_to_sell
    IN /\ Request("sell", c, company, quantity, sell_price)
       /\ UNCHANGED <<watchlists, session>>
       /\ IF session[c] = NoSession
          THEN /\ Reply(302, "", "login", <<>>)
               /\ UNCHANGED <<users, portfolio>>
          ELSE IF ~quantity.isInt
          THEN \* int() raises ValueError: the request ends in a server error
               /\ Reply(500, "", "", <<>>)
               /\ UNCHANGED <<users, portfolio>>
          ELSE IF NotEnough(h, qty_to_sell)
          THEN /\ Reply(302, "Not enough quantity to sell", "portfolio_page", <<>>)
               /\ UNCHANGED <<users, portfolio>>
          ELSE IF u = 0
          THEN \* user is None: user["balance"] raises TypeError
               /\ Reply(500, "", "", <<>>)
               /\ UNCHANGED <<users, portfolio>>
          ELSE /\ users' = [users EXCEPT
                               ![u].balance = @ + sell_price * qty_to_sell]
               /\ portfolio' =
                      IF left = 0
                      THEN RemoveAt(portfolio, h)
                      ELSE [portfolio EXCEPT ![h].quantity = left]
               /\ Reply(302, "Stock sold successfully", "portfolio_page", <<>>)

\* app.py:251-254
user_portfolio(user) ==
    LET F[i \in 0..Len(portfolio)] ==
            IF i = 0 THEN <<>>
            ELSE IF portfolio[i].user = user
                 THEN Append(F[i - 1], portfolio[i])
                 ELSE F[i - 1]
    IN F[Len(portfolio)]

\* round(x, 2) of a value given in ten-thousandths, to hundredths
Round2(x) == (x + 50) \div 100

\* app.py:259-277
portfolio_view(rows, factor) ==
    [i \in DOMAIN rows |->
        LET p == rows[i]
            current_price == Round2(LatestPrice[p.company] * factor)
        IN [company |-> p.company, quantity |-> p.quantity,
            buy_price |-> p.buy_price, current_price |-> current_price,
            pnl |-> (current_price - p.buy_price) * p.quantity]]

\* a page that stores the price it has just drawn as the holding's buy price
portfolio_page_Revalue(c, factor) ==
    /\ Request("portfolio", c, "", NoQuantity, 0)
    /\ IF session[c] = NoSession
       THEN Reply(302, "", "login", <<>>)
       ELSE Reply(200, "", "", portfolio_view(user_portfolio(session[c]), factor))
    /\ portfolio' = [i \in DOMAIN portfolio |->
           IF portfolio[i].user = session[c]
           THEN [portfolio[i] EXCEPT
                    !.buy_price = Round2(LatestPrice[portfolio[i].company] * factor)]
           ELSE portfolio[i]]
    /\ UNCHANGED <<users, watchlists, session>>

\* app.py:241-285
portfolio_page(c, factor) ==
    /\ Request("portfolio", c, "", NoQuantity, 0)
    /\ IF session[c] = NoSession
       THEN Reply(302, "", "login", <<>>)
       ELSE Reply(200, "", "", portfolio_view(user_portfolio(session[c]), factor))
    /\ UNCHANGED <<users, watchlists, portfolio, session>>

\* a membership test that never finds the pair
InWatchlist_Never(user, company) == FALSE

\* app.py:293-296
InWatchlist(user, company) ==
    \E i \in DOMAIN watchlists :
        /\ watchlists[i].user = user
        /\ watchlists[i].company = company

\* a session lookup that yields the missing value and does not raise
SessionKeyError_Never(c) == FALSE

\* app.py:294, 298: session["user"] raises KeyError when the session has no
\* user
SessionKeyError(c) == session[c] = NoSession

add_to_watchlist(c, company) ==
    /\ Request("add_to_watchlist", c, company, NoQuantity, 0)
    /\ IF SessionKeyError(c)
       THEN \* the request ends in a server error
            /\ Reply(500, "", "", <<>>)
            /\ UNCHANGED watchlists
       ELSE /\ watchlists' =
                 IF InWatchlist(session[c], company)
                 THEN watchlists
                 ELSE Append(watchlists, [user |-> session[c], company |-> company])
            /\ Reply(302, "", "dashboard", <<>>)
    /\ UNCHANGED <<users, portfolio, session>>

(***************************************************************************)
(* app.py: the specification                                               *)
(***************************************************************************)
InitApp ==
    /\ users = <<>>
    /\ watchlists = <<>>
    /\ portfolio = <<>>
    /\ session = [c \in AppClients |-> NoSession]
    /\ last = [op |-> "none", client |-> "c1", company |-> "",
               quantity |-> NoQuantity, sell_price |-> 0, user |-> 0,
               balance |-> 0]
    /\ response = [status |-> 200, flash |-> "", redirect |-> "", view |-> <<>>]
    /\ nreq = 0

Signup ==
    /\ \E c \in AppClients, n \in Names, e \in Emails, p \in Passwords : signup(c, n, e, p)
    /\ UNCHANGED awsVars

Login ==
    /\ \E c \in AppClients, e \in Emails, p \in Passwords \cup {"wrong"} : login(c, e, p)
    /\ UNCHANGED awsVars

Logout ==
    /\ \E c \in AppClients : logout(c)
    /\ UNCHANGED awsVars

BuyStock ==
    /\ \E c \in AppClients, s \in Symbols, q \in FormQuantities : buy_stock(c, s, q)
    /\ UNCHANGED awsVars

SellStock ==
    /\ \E c \in AppClients, s \in Symbols, q \in FormQuantities, sp \in SellPrices :
           sell_stock(c, s, q, sp)
    /\ UNCHANGED awsVars

PortfolioPage ==
    /\ \E c \in AppClients, f \in Factors : portfolio_page(c, f)
    /\ UNCHANGED awsVars

AddToWatchlist ==
    /\ \E c \in AppClients, s \in Symbols : add_to_watchlist(c, s)
    /\ UNCHANGED awsVars

Next ==
    \/ Signup
    \/ Login
    \/ Logout
    \/ BuyStock
    \/ SellStock
    \/ PortfolioPage
    \/ AddToWatchlist

(***************************************************************************)
(* app_aws.py: tables, sessions and requests in flight                     *)
(*                                                                         *)
(* Every table call is one atomic step of the table; a handler is a        *)
(* sequence of such calls, and the handlers of different browsers          *)
(* interleave between them.  The Portfolio and Watchlist tables are taken  *)
(* to be keyed by (email, company): the handlers query them by email and   *)
(* put one item per company.                                               *)
(***************************************************************************)
MaxAwsRequests == 5

\* what sns.publish may do: accept the message, raise ClientError, or raise
\* an error that is no ClientError (no endpoint, no credentials)
SnsOutcomes == {"ok", "ClientError", "BotoCoreError"}

\* random.uniform(0.97, 1.03), in percent
AwsFactors == {97, 103}

\* the inputs of the requests of this deployment
AwsNames == {"ann"}
AwsSymbols == {"Apple", "DOGE"}
AwsFormQuantities == [isInt : {TRUE}, v : {-1, 2, 600}] \cup {NoQuantity}

NoAwsSession == [email |-> NoSession, user |-> NoSession]

NoRequest ==
    [op |-> "none", email |-> "", name |-> "", password |-> "", company |-> "",
     quantity |-> NoQuantity, price |-> 0, total_cost |-> 0, balance |-> 0,
     fresh |-> FALSE]

\* app_aws.py:74-77: Decimal(str(round(float(row["Close"]), 2)))
get_latest_price(company) == LatestPrice[company]

\* Table.put_item: the item replaces whatever item has its key
put_item(table, key, item) ==
    [k \in DOMAIN table \cup {key} |-> IF k = key THEN item ELSE table[k]]

\* app_aws.py:238: SET balance = balance - :amt
update_balance(table, email, amt) ==
    [table EXCEPT ![email].balance = @ - amt]

\* app_aws.py:63-71: TRUE when send_notification returns, FALSE when the
\* error leaves it
send_notification(outcome) == outcome \in {"ok", "ClientError"}

AwsReply(c, status, flash, redirect, view) ==
    aws_response' = [aws_response EXCEPT ![c] =
        [status |-> status, flash |-> flash, redirect |-> redirect, view |-> view]]

AwsRequest(c, r) ==
    /\ pc[c] = "idle"
    /\ aws_nreq < MaxAwsRequests
    /\ aws_nreq' = aws_nreq + 1
    /\ req' = [req EXCEPT ![c] = r]

Goto(c, label) == pc' = [pc EXCEPT ![c] = label]


(***************************************************************************)
(* app_aws.py: routes                                                      *)
(***************************************************************************)
\* app_aws.py:128-133
aws_signup(c, name, email, password) ==
    /\ AwsRequest(c, [NoRequest EXCEPT !.op = "signup", !.email = email,
                                       !.name = name, !.password = password])
    /\ IF email \in DOMAIN users_table
       THEN /\ AwsReply(c, 302, "Account already exists. Please login.", "login", <<>>)
            /\ UNCHANGED pc
       ELSE /\ Goto(c, "signup_put")
            /\ UNCHANGED aws_response
    /\ UNCHANGED <<users_table, portfolio_table, watchlist_table, aws_session>>

\* app_aws.py:135-145
aws_signup_put(c, outcome) ==
    /\ pc[c] = "signup_put"
    /\ users_table' = put_item(users_table, req[c].email,
           [email |-> req[c].email, name |-> req[c].name,
            password |-> generate_password_hash(req[c].password),
            balance |-> StartingBalance])
    /\ IF send_notification(outcome)
       THEN AwsReply(c, 302, "Signup successful. Login now.", "login", <<>>)
       ELSE AwsReply(c, 500, "", "", <<>>)
    /\ Goto(c, "idle")
    /\ UNCHANGED <<portfolio_table, watchlist_table, aws_session, req, aws_nreq>>

\* app_aws.py:155-170
aws_login(c, email, password, outcome) ==
    /\ AwsRequest(c, [NoRequest EXCEPT !.op = "login", !.email = email,
                                       !.password = password])
    /\ IF \/ email \notin DOMAIN users_table
          \/ ~check_password_hash(users_table[email].password, password)
       THEN /\ AwsReply(c, 302, "User not registered or incorrect password.", "login", <<>>)
            /\ UNCHANGED aws_session
       ELSE /\ aws_session' = [aws_session EXCEPT ![c] =
                   [email |-> email, user |-> users_table[email].name]]
            /\ IF send_notification(outcome)
               THEN AwsReply(c, 302, "", "dashboard", <<>>)
               ELSE AwsReply(c, 500, "", "", <<>>)
    /\ UNCHANGED <<users_table, portfolio_table, watchlist_table, pc>>

\* app_aws.py:175-178
aws_logout(c) ==
    /\ AwsRequest(c, [NoRequest EXCEPT !.op = "logout"])
    /\ aws_session' = [aws_session EXCEPT ![c] = NoAwsSession]
    /\ AwsReply(c, 302, "", "login", <<>>)
    /\ UNCHANGED <<users_table, portfolio_table, watchlist_table, pc>>

\* app_aws.py:232
AwsInsufficientBalance(balance, total_cost) == total_cost > balance

\* app_aws.py:222-234: up to the balance check, made on the item get_user read
aws_buy_stock(c, company, quantity) ==
    LET email == aws_session[c].email
        qty == quantity.v
        known == company \in COMPANIES
        price == IF known THEN get_latest_price(company) ELSE 0
        total_cost == price * qty
        found == email \in DOMAIN users_table
        balance == IF found THEN users_table[email].balance ELSE 0
    IN /\ AwsRequest(c, [NoRequest EXCEPT
              !.op = "buy", !.email = email, !.company = company,
              !.quantity = quantity, !.price = price, !.total_cost = total_cost,
              !.balance = balance,
              !.fresh = (<<email, company>> \notin DOMAIN portfolio_table)])
       /\ IF email = NoSession
          THEN /\ AwsReply(c, 302, "", "login", <<>>)
               /\ UNCHANGED pc
          ELSE IF ~quantity.isInt \/ ~known \/ ~found
          THEN \* ValueError of int(), KeyError of COMPANIES[company],
               \* TypeError of user["balance"] when get_user returns None
               /\ AwsReply(c, 500, "", "", <<>>)
               /\ UNCHANGED pc
          ELSE IF AwsInsufficientBalance(balance, total_cost)
          THEN /\ AwsReply(c, 302, "Insufficient balance", "dashboard", <<>>)
               /\ UNCHANGED pc
          ELSE /\ Goto(c, "buy_debit")
               /\ UNCHANGED aws_response
       /\ UNCHANGED <<users_table, portfolio_table, watchlist_table, aws_session>>

\* app_aws.py:236-240
aws_buy_debit(c) ==
    /\ pc[c] = "buy_debit"
    /\ users_table' = update_balance(users_table, req[c].email, req[c].total_cost)
    /\ Goto(c, "buy_put")
    /\ UNCHANGED <<portfolio_table, watchlist_table, aws_session, req,
                   aws_response, aws_nreq>>

\* app_aws.py:242-247
AwsNewHolding(email, company, qty, price) ==
    [email |-> email, company |-> company, quantity |-> qty, buy_price |-> price]

\* app_aws.py:242-247: the put succeeds, or raises and ends the request
aws_buy_put(c, stored) ==
    /\ pc[c] = "buy_put"
    /\ IF stored
       THEN /\ portfolio_table' = put_item(portfolio_table,
                   <<req[c].email, req[c].company>>,
                   AwsNewHolding(req[c].email, req[c].company,
                                 req[c].quantity.v, req[c].price))
            /\ Goto(c, "buy_notify")
            /\ UNCHANGED aws_response
       ELSE /\ AwsReply(c, 500, "", "", <<>>)
            /\ Goto(c, "idle")
            /\ UNCHANGED portfolio_table
    /\ UNCHANGED <<users_table, watchlist_table, aws_session, req, aws_nreq>>

\* app_aws.py:249-255
aws_buy_notify(c, outcome) ==
    /\ pc[c] = "buy_notify"
    /\ IF send_notification(outcome)
       THEN AwsReply(c, 302, "Bought", "portfolio_page", <<>>)
       ELSE AwsReply(c, 500, "", "", <<>>)
    /\ Goto(c, "idle")
    /\ UNCHANGED <<users_table, portfolio_table, watchlist_table, aws_session,
                   req, aws_nreq>>

\* app_aws.py:277-290: the rows of the items of one email, in ten-thousandths
aws_portfolio_view(email, factor) ==
    {[company |-> k[2],
      quantity |-> portfolio_table[k].quantity,
      buy_price |-> portfolio_table[k].buy_price,
      current_price |-> get_latest_price(k[2]) * factor,
      pnl |-> (get_latest_price(k[2]) * factor - portfolio_table[k].buy_price * 100)
              * portfolio_table[k].quantity] :
        k \in {x \in DOMAIN portfolio_table : x[1] = email}}

\* app_aws.py:262-300
aws_portfolio_page(c, factor) ==
    /\ AwsRequest(c, [NoRequest EXCEPT !.op = "portfolio",
                                       !.email = aws_session[c].email])
    /\ IF aws_session[c].email = NoSession
       THEN AwsReply(c, 302, "", "login", {})
       ELSE AwsReply(c, 200, "", "", aws_portfolio_view(aws_session[c].email, factor))
    /\ UNCHANGED <<users_table, portfolio_table, watchlist_table, aws_session, pc>>

\* app_aws.py:307-315
aws_add_to_watchlist(c, company) ==
    /\ AwsRequest(c, [NoRequest EXCEPT !.op = "add_to_watchlist",
                                       !.email = aws_session[c].email,
                                       !.company = company])
    /\ IF aws_session[c].email = NoSession
       THEN \* session["email"] raises KeyError
            /\ AwsReply(c, 500, "", "", {})
            /\ UNCHANGED watchlist_table
       ELSE /\ watchlist_table' = watchlist_table \cup {<<aws_session[c].email, company>>}
            /\ AwsReply(c, 302, "", "dashboard", {})
    /\ UNCHANGED <<users_table, portfolio_table, aws_session, pc>>

(***************************************************************************)
(* app_aws.py: the specification                                           *)
(***************************************************************************)
InitAws ==
    /\ users_table = <<>>
    /\ portfolio_table = <<>>
    /\ watchlist_table = {}
    /\ aws_session = [c \in Clients |-> NoAwsSession]
    /\ pc = [c \in Clients |-> "idle"]
    /\ req = [c \in Clients |-> NoRequest]
    /\ aws_response = [c \in Clients |->
           [status |-> 200, flash |-> "", redirect |-> "", view |-> {}]]
    /\ aws_nreq = 0

AwsSignup ==
    /\ \E c \in Clients, n \in AwsNames, e \in Emails, p \in Passwords :
           aws_signup(c, n, e, p)
    /\ UNCHANGED appVars

AwsSignupPut ==
    /\ \E c \in Clients, o \in SnsOutcomes : aws_signup_put(c, o)
    /\ UNCHANGED appVars

AwsLogin ==
    /\ \E c \in Clients, e \in Emails, p \in Passwords \cup {"wrong"},
          o \in SnsOutcomes : aws_login(c, e, p, o)
    /\ UNCHANGED appVars

AwsLogout ==
    /\ \E c \in Clients : aws_logout(c)
    /\ UNCHANGED appVars

AwsBuyStock ==
    /\ \E c \in Clients, s \in AwsSymbols, q \in AwsFormQuantities :
           aws_buy_stock(c, s, q)
    /\ UNCHANGED appVars

AwsBuyDebit ==
    /\ \E c \in Clients : aws_buy_debit(c)
    /\ UNCHANGED appVars

AwsBuyPut ==
    /\ \E c \in Clients, stored \in BOOLEAN : aws_buy_put(c, stored)
    /\ UNCHANGED appVars

AwsBuyNotify ==
    /\ \E c \in Clients, o \in SnsOutcomes : aws_buy_notify(c, o)
    /\ UNCHANGED appVars

AwsPortfolioPage ==
    /\ \E c \in Clients, f \in AwsFactors : aws_portfolio_page(c, f)
    /\ UNCHANGED appVars

AwsAddToWatchlist ==
    /\ \E c \in Clients, s \in AwsSymbols : aws_add_to_watchlist(c, s)
    /\ UNCHANGED appVars

NextAws ==
    \/ AwsSignup
    \/ AwsSignupPut
    \/ AwsLogin
    \/ AwsLogout
    \/ AwsBuyStock
    \/ AwsBuyDebit
    \/ AwsBuyPut
    \/ AwsBuyNotify
    \/ AwsPortfolioPage
    \/ AwsAddToWatchlist

Init == InitApp /\ InitAws

Spec == Init /\ [][Next]_vars

SpecAws == Init /\ [][NextAws]_vars

(***************************************************************************)
(* Properties of the ledger                                                *)
(***************************************************************************)
\* the step handles a request of the given route for a logged-in browser
Handles(op) ==
    /\ nreq' = nreq + 1
    /\ last'.op = op
    /\ session[last'.client] # NoSession

\* the total quantity an account holds of a company
Held(user, company) ==
    LET F[i \in 0..Len(portfolio)] ==
            IF i = 0 THEN 0
            ELSE F[i - 1] + (IF /\ portfolio[i].user = user
                                /\ portfolio[i].company = company
                             THEN portfolio[i].quantity ELSE 0)
    IN F[Len(portfolio)]

\* every holding record has a quantity above zero
Positive == \A i \in DOMAIN portfolio : portfolio[i].quantity > 0

\* C1: every account's cash balance is at least zero in every reachable
\* state, whatever quantities and sell prices the buy and sell requests
\* submitted.
C1_CashNeverNegative == \A i \in DOMAIN users : users[i].balance >= 0

\* C2: every holding record has a quantity above zero, and no portfolio
\* listing shows a holding whose quantity is zero or less.
C2_HoldingsPositive ==
    /\ \A i \in DOMAIN portfolio : portfolio[i].quantity > 0
    /\ \A i \in DOMAIN response.view : response.view[i].quantity > 0

\* C5: a buy whose cost (quote price * quantity) exceeds the balance of the
\* account fails with "Insufficient balance" and changes no balance and no
\* holding.
C5_InsufficientBalanceRejected ==
    [][(/\ Handles("buy")
        /\ last'.user # 0
        /\ last'.quantity.isInt
        /\ last'.company \in COMPANIES
        /\ last'.quantity.v * LatestPrice[last'.company] > users[last'.user].balance)
       => (/\ response'.flash = "Insufficient balance"
           /\ users' = users
           /\ portfolio' = portfolio)]_vars

\* a buy was refused because its cost exceeded the balance
C5_Witness ==
    /\ last.op = "buy"
    /\ last.user # 0
    /\ last.quantity.isInt
    /\ last.company \in COMPANIES
    /\ last.quantity.v * LatestPrice[last.company] > last.balance
    /\ response.flash = "Insufficient balance"
    /\ portfolio # <<>>

\* C6: a sell of more shares than the account holds of the company fails
\* with "Not enough quantity to sell" and changes no balance and no holding;
\* a sell of at most the quantity held does not fail this way.  (Stated of
\* sells of a positive quantity, from states where every holding is positive.)
C6_InsufficientHoldingsRejected ==
    [][(/\ Handles("sell")
        /\ Positive
        /\ last'.quantity.isInt
        /\ last'.quantity.v > 0)
       => LET held == Held(session[last'.client], last'.company)
          IN /\ last'.quantity.v > held
                  => (/\ response'.flash = "Not enough quantity to sell"
                      /\ users' = users
                      /\ portfolio' = portfolio)
             /\ last'.quantity.v <= held
                  => response'.flash # "Not enough quantity to sell"]_vars

\* C7: a buy or a sell whose quantity is no positive integer fails with
\* "Invalid quantity" and changes no balance and no holding.
C7_InvalidQuantityRejected ==
    [][(/\ \/ Handles("buy")
           \/ Handles("sell")
        /\ ~(last'.quantity.isInt /\ last'.quantity.v > 0))
       => (/\ response'.flash = "Invalid quantity"
           /\ users' = users
           /\ portfolio' = portfolio)]_vars

\* C8: a sell of q shares at the price p that directly follows a successful
\* buy of q shares of the same company at p by the same browser succeeds and
\* leaves the balance at its value before the buy.  (Stated of states where
\* every holding is positive.)
C8_BuyThenSellRestoresBalance ==
    [][(/\ last.op = "buy"
        /\ Positive
        /\ response.flash = "Bought"
        /\ last.quantity.v > 0
        /\ Handles("sell")
        /\ last'.client = last.client
        /\ last'.company = last.company
        /\ last'.quantity = last.quantity
        /\ last'.sell_price = LatestPrice[last.company])
       => (/\ response'.flash = "Stock sold successfully"
           /\ users'[last.user].balance = last.balance)]_vars

\* C9: a successful buy of q shares at price p leaves exactly one holding of
\* the account and the company: quantity q and average p when there was
\* none, else quantity oldQty + q and average
\* (oldQty * oldAvg + q * p) / (oldQty + q).
C9_BuyMergesHolding ==
    [][(/\ Handles("buy")
        /\ Positive
        /\ response'.flash = "Bought"
        /\ last'.quantity.v > 0)
       => LET user == session[last'.client]
              q == last'.quantity.v
              p == LatestPrice[last'.company]
              old == FindHolding(user, last'.company)
              oldQty == IF old = 0 THEN 0 ELSE portfolio[old].quantity
              oldAvg == IF old = 0 THEN 0 ELSE portfolio[old].buy_price
              now == {i \in DOMAIN portfolio' :
                         /\ portfolio'[i].user = user
                         /\ portfolio'[i].company = last'.company}
          IN /\ Cardinality(now) = 1
             /\ \A i \in now :
                    /\ portfolio'[i].quantity = oldQty + q
                    /\ portfolio'[i].buy_price * (oldQty + q)
                           = oldQty * oldAvg + q * p]_vars

\* C10: a successful sell of q shares at sell price s from a holding of Q
\* shares at average a credits s * q to the balance, leaves the holding at
\* Q - q shares at average a (none when Q = q), and returns
\* realizedPnl = (s - a) * q to the caller.
C10_SellCreditsAndReportsPnl ==
    [][(/\ Handles("sell")
        /\ response'.flash = "Stock sold successfully"
        /\ last'.quantity.v > 0)
       => LET q == last'.quantity.v
              s == last'.sell_price
              h == FindHolding(session[last'.client], last'.company)
              Q == portfolio[h].quantity
              a == portfolio[h].buy_price
          IN /\ users'[last'.user].balance = users[last'.user].balance + s * q
             /\ IF Q = q
                THEN Len(portfolio') = Len(portfolio) - 1
                ELSE /\ portfolio'[h].quantity = Q - q
                     /\ portfolio'[h].buy_price = a
             /\ "realizedPnl" \in DOMAIN response'
             /\ response'.realizedPnl = (s - a) * q]_vars

\* the browser's last request was a buy that ended with "Bought"
AwsBought(c) ==
    /\ pc[c] = "idle"
    /\ req[c].op = "buy"
    /\ aws_response[c].flash = "Bought"

\* C3: two buys of q1 and q2 shares of one company on one account that ran
\* concurrently (each began before the other had recorded its holding, and
\* no holding existed) and both succeeded leave a holding of q1 + q2 shares
\* at the volume-weighted average price.
C3_ConcurrentBuysMerge ==
    \A c1, c2 \in Clients :
        (/\ c1 # c2
         /\ AwsBought(c1) /\ AwsBought(c2)
         /\ req[c1].email = req[c2].email
         /\ req[c1].company = req[c2].company
         /\ req[c1].fresh /\ req[c2].fresh
         /\ req[c1].quantity.v > 0 /\ req[c2].quantity.v > 0)
        => LET key == <<req[c1].email, req[c1].company>>
               q1 == req[c1].quantity.v
               q2 == req[c2].quantity.v
           IN /\ key \in DOMAIN portfolio_table
              /\ portfolio_table[key].quantity = q1 + q2
              /\ portfolio_table[key].buy_price * (q1 + q2)
                     = q1 * req[c1].price + q2 * req[c2].price

\* C4: when two buys on one account both read a balance that covers each
\* cost alone but not both together, at most one of them succeeds; and no
\* balance is ever below zero.
C4_CheckAndDebitIndivisible ==
    /\ \A e \in DOMAIN users_table : users_table[e].balance >= 0
    /\ \A c1, c2 \in Clients :
           (/\ c1 # c2
            /\ req[c1].op = "buy" /\ req[c2].op = "buy"
            /\ req[c1].email = req[c2].email
            /\ req[c1].balance = req[c2].balance
            /\ req[c1].total_cost > 0 /\ req[c2].total_cost > 0
            /\ req[c1].total_cost <= req[c1].balance
            /\ req[c2].total_cost <= req[c2].balance
            /\ req[c1].total_cost + req[c2].total_cost > req[c1].balance)
           => ~(AwsBought(c1) /\ AwsBought(c2))

\* C11: no money is created or destroyed, under any interleaving of the
\* requests: an account's balance changes only by the debit of a buy, by
\* exactly that buy's cost, and every buy that was debited ends with
\* "Bought", so that failed requests contribute nothing and the balance is
\* the starting balance minus the cost of the successful buys.
C11_MoneyConserved ==
    [][/\ \A e \in DOMAIN users_table :
              users_table'[e].balance # users_table[e].balance
                  => \E c \in Clients :
                         /\ pc[c] = "buy_debit"
                         /\ pc'[c] = "buy_put"
                         /\ req[c].email = e
                         /\ users_table'[e].balance
                                = users_table[e].balance - req[c].total_cost
       /\ \A c \in Clients :
              (/\ pc[c] \in {"buy_put", "buy_notify"}
               /\ pc'[c] = "idle"
               /\ req[c].total_cost > 0)
                  => aws_response'[c].flash = "Bought"]_vars

\* C12: when the debit of a buy has been made and recording the holding then
\* fails, the buy ends with the cost credited back: the step that ends such
\* a buy leaves no holding added and the balance raised by the debited
\* amount.
C12_FailedRecordCompensated ==
    [][\A c \in Clients :
           (/\ pc[c] = "buy_put"
            /\ pc'[c] = "idle"
            /\ aws_response'[c].flash # "Bought")
               => /\ portfolio_table' = portfolio_table
                  /\ users_table'[req[c].email].balance
                         = users_table[req[c].email].balance + req[c].total_cost]_vars

\* the step begins a request of the given route by browser c
AwsBegins(c, op) ==
    /\ pc[c] = "idle"
    /\ aws_nreq' = aws_nreq + 1
    /\ req'[c] # req[c]
    /\ req'[c].op = op

\* C13: a buy of a logged-in browser that names a symbol the price feed does
\* not know is answered by the handler (it returns a result, it does not
\* end in a server error), the request is over, and no balance and no
\* holding has changed.
C13_UnknownSymbolReturned ==
    [][\A c \in Clients :
           (/\ AwsBegins(c, "buy")
            /\ aws_session[c].email # NoSession
            /\ req'[c].quantity.isInt
            /\ req'[c].company \notin COMPANIES)
               => /\ aws_response'[c].status # 500
                  /\ pc'[c] = "idle"
                  /\ users_table' = users_table
                  /\ portfolio_table' = portfolio_table]_vars

\* no two entries of a watchlist have the same owner and the same company
NoDuplicates(w) ==
    \A i, j \in DOMAIN w :
        (w[i].user = w[j].user /\ w[i].company = w[j].company) => i = j

C15_NotificationNeverFailsBuy ==
    [][\A c \in Clients :
           (pc[c] = "buy_notify" /\ pc'[c] = "idle")
               => /\ aws_response'[c].flash = "Bought"
                  /\ aws_response'[c].status = 302
                  /\ users_table' = users_table
                  /\ portfolio_table' = portfolio_table]_vars

\* C16: the portfolio page is read-only: a request of the page changes no
\* account (balance included), no holding (quantity and buy price included)
\* and no watchlist entry, whatever fluctuation factor it draws.
C16_ValuationReadOnly ==
    [][(nreq' = nreq + 1 /\ last'.op = "portfolio")
          => (/\ users' = users
              /\ portfolio' = portfolio
              /\ watchlists' = watchlists)]_vars

\* the last request was a portfolio page that listed a holding at a current
\* price other than its buy price
C16_Witness ==
    /\ last.op = "portfolio"
    /\ response.status = 200
    /\ \E i \in DOMAIN response.view :
           response.view[i].current_price # response.view[i].buy_price
    /\ portfolio # <<>>

\* C17: a failing sell tells which failure occurred: a sell that fails
\* because the account holds nothing of the company, followed by a sell of
\* the same browser that fails because it holds some but fewer shares than
\* asked, are answered with two different messages.  (Stated of states where
\* every holding is positive.)
C17_SellFailuresDistinct ==
    [][(/\ last.op = "sell"
        /\ last.quantity.isInt
        /\ last.quantity.v > 0
        /\ session[last.client] # NoSession
        /\ FindHolding(session[last.client], last.company) = 0
        /\ Positive
        /\ Handles("sell")
        /\ last'.client = last.client
        /\ last'.quantity.isInt
        /\ FindHolding(session[last.client], last'.company) # 0
        /\ Held(session[last.client], last'.company) < last'.quantity.v)
          => (/\ response'.flash # ""
              /\ response.flash # ""
              /\ response'.flash # response.flash)]_vars

\* C18: accounts are isolated: a buy, a sell or a watchlist add that a
\* browser makes right after it has logged in with an email changes the
\* balance of no account registered under another email, whatever the
\* display names of the accounts.  (The email of a login request is kept in
\* the field company of last.)
C18_AccountsIsolated ==
    [][(/\ last.op = "login"
        /\ response.redirect = "dashboard"
        /\ nreq' = nreq + 1
        /\ last'.client = last.client
        /\ last'.op \in {"buy", "sell", "add_to_watchlist"})
          => \A i \in DOMAIN users :
                 users[i].email # last.company => users'[i] = users[i]]_vars

\* C19: signup never disturbs an existing account, under any interleaving
\* of the signup requests: no step of a signup changes the balance, the
\* password or the name of an account that is registered under the
\* signup's email when the step is taken.
C19_SignupKeepsExistingAccount ==
    [][\A c \in Clients :
           (/\ pc[c] = "signup_put"
            /\ pc'[c] = "idle"
            /\ req[c].email \in DOMAIN users_table)
               => users_table'[req[c].email] = users_table[req[c].email]]_vars

\* C20: a request made without a logged-in session (never logged in, or
\* after logout and before the next login) changes no state: a buy, a sell
\* or a watchlist add of such a browser leaves every account, every holding,
\* every watchlist entry and every session as it was.
C20_NoSessionNoChange ==
    [][(/\ nreq' = nreq + 1
        /\ last'.op \in {"buy", "sell", "add_to_watchlist"}
        /\ session[last'.client] = NoSession)
          => (/\ users' = users
              /\ portfolio' = portfolio
              /\ watchlists' = watchlists
              /\ session' = session)]_vars

\* the last request was a buy, a sell or a watchlist add of a browser that
\* had logged out: it has no session, and a holding bought while it was
\* logged in exists
C20_Witness ==
    /\ last.op \in {"buy", "sell", "add_to_watchlist"}
    /\ session[last.client] = NoSession
    /\ last.user = 0
    /\ portfolio # <<>>

====
